---- MODULE Spec2Model ----
(***************************************************************************)
(* Model of vector-db/src/OpenAIEmbeddings.ts: the OpenAIEmbeddings client *)
(* (constructor, createEmbeddings, createEmbeddingRequest, post) and the   *)
(* axios transport it talks to.                                            *)
(*                                                                         *)
(* JavaScript values are tagged records [t, v]; objects are functions from *)
(* the keys they carry to values, so that a key carrying undefined differs *)
(* from a key that is not there.  Strings are sequences of characters.     *)
(***************************************************************************)
EXTENDS Integers, Sequences, FiniteSets, TLC

VARIABLES
    client,         \* "none" | "ready" | "threw": outcome of new OpenAIEmbeddings(..)
    clientType,     \* this._clientType
    options,        \* this.options
    callerOptions,  \* the options object the caller passed to the constructor
    supplied,       \* what that object held when the constructor was called
    pc,             \* per call: position inside createEmbeddings / post
    inputs,         \* per call: the inputs argument
    url,            \* per call: the url argument of post
    body,           \* per call: the body argument of post
    retryCount,     \* per call: the retryCount argument of the running post
    sent,           \* per call: the physical requests handed to axios so far
    waited,         \* per call: the setTimeout delays that have elapsed
    received,       \* per call: the responses axios got for the attempts, in order
    result          \* per call: what createEmbeddings returned

vars == <<client, clientType, options, callerOptions, supplied, pc, inputs,
          url, body, retryCount, sent, waited, received, result>>

clientVars == <<client, clientType, options, callerOptions, supplied>>

---------------------------------------------------------------------------
(* Bounds *)

MaxRetries == 2     \* longest caller-supplied retryPolicy
MaxItems == 3       \* most items in response.data.data
MaxInputs == 2      \* most strings in one inputs array

CallIds == {1, 2}

---------------------------------------------------------------------------
(* JavaScript values *)

Undefined == [t |-> "undefined", v |-> <<>>]
NoKey == [t |-> "nokey", v |-> <<>>]
Str(s) == [t |-> "string", v |-> s]
Arr(a) == [t |-> "array", v |-> a]
Obj(o) == [t |-> "object", v |-> o]
EmptyObject == [k \in {} |-> Undefined]

\* o[k] of JavaScript: undefined when the object has no such key
Get(o, k) == IF k \in DOMAIN o THEN o[k] ELSE Undefined

\* ToBoolean
Truthy(x) ==
    CASE x.t = "undefined" -> FALSE
      [] x.t = "string" -> x.v # <<>>
      [] OTHER -> TRUE

\* String(x) as a template literal interpolates it
ToStringJS(x) ==
    IF x.t = "undefined" THEN <<"u","n","d","e","f","i","n","e","d">> ELSE x.v

\* Object.assign(target, source): every own key of source is copied,
\* whatever its value
ObjectAssign(target, source) ==
    [k \in DOMAIN target \cup DOMAIN source |->
        IF k \in DOMAIN source THEN source[k] ELSE target[k]]

\* the object literal that carries the keys of ch whose choice is not NoKey
MkObject(ch) == [k \in {j \in DOMAIN ch : ch[j].t # "nokey"} |-> ch[k]]

---------------------------------------------------------------------------
(* Strings *)

Whitespace == {" ", "\t"}

RECURSIVE TrimStart(_)
TrimStart(s) ==
    IF s # <<>> /\ Head(s) \in Whitespace THEN TrimStart(Tail(s)) ELSE s

RECURSIVE TrimEnd(_)
TrimEnd(s) ==
    IF s # <<>> /\ s[Len(s)] \in Whitespace
    THEN TrimEnd(SubSeq(s, 1, Len(s) - 1)) ELSE s

\* String.prototype.trim
Trim(s) == TrimEnd(TrimStart(s))

EndsWith(s, p) ==
    Len(s) >= Len(p) /\ SubSeq(s, Len(s) - Len(p) + 1, Len(s)) = p

StartsWith(s, p) == Len(s) >= Len(p) /\ SubSeq(s, 1, Len(p)) = p

LowerChar(c) ==
    CASE c = "H" -> "h" [] c = "T" -> "t" [] c = "P" -> "p" [] c = "S" -> "s"
      [] c = "X" -> "x" [] OTHER -> c

\* String.prototype.toLowerCase
ToLowerCase(s) == [i \in 1..Len(s) |-> LowerChar(s[i])]

RECURSIVE Digits(_)
\* decimal rendering of a non-negative integer
Digits(n) ==
    LET d == <<"0","1","2","3","4","5","6","7","8","9">>[(n % 10) + 1]
    IN IF n < 10 THEN <<d>> ELSE Append(Digits(n \div 10), d)

HttpsScheme == <<"h","t","t","p","s",":","/","/">>
OpenAIBase == <<"h","t","t","p","s",":","/","/","a","p","i",".","o","p","e","n","a","i",".","c","o","m">>
EmbeddingsPath == <<"/","v","1","/","e","m","b","e","d","d","i","n","g","s">>
BearerPrefix == <<"B","e","a","r","e","r"," ">>
ApplicationJson == <<"a","p","p","l","i","c","a","t","i","o","n","/","j","s","o","n">>
UserAgent == <<"A","l","p","h","a","W","a","v","e">>
DefaultApiVersion == <<"2","0","2","3","-","0","5","-","1","5">>
DefaultRetryPolicy == <<2000, 5000>>

---------------------------------------------------------------------------
(* Constructor *)

\* lines 167-171: trim, then drop one trailing "/"
CleanEndpoint(s) ==
    LET endpoint == Trim(s)
    IN IF EndsWith(endpoint, <<"/">>)
       THEN SubSeq(endpoint, 1, Len(endpoint) - 1)
       ELSE endpoint

\* ValidEndpoint comparing the scheme case-sensitively
ValidEndpointExact(endpoint) == StartsWith(endpoint, HttpsScheme)

\* line 173
ValidEndpoint(endpoint) == StartsWith(ToLowerCase(endpoint), HttpsScheme)

\* SelectClientType testing the self-hosted field first
SelectClientTypeOssFirst(o) ==
    IF Truthy(Get(o, "ossModel")) THEN "OSS"
    ELSE IF Truthy(Get(o, "azureApiKey")) THEN "AzureOpenAI"
    ELSE "OpenAI"

\* lines 157, 180, 188: the branch the constructor takes
SelectClientType(o) ==
    IF Truthy(Get(o, "azureApiKey")) THEN "AzureOpenAI"
    ELSE IF Truthy(Get(o, "ossModel")) THEN "OSS"
    ELSE "OpenAI"

\* the defaults object literal of each branch
Defaults(type) ==
    IF type = "AzureOpenAI"
    THEN ("retryPolicy" :> Arr(DefaultRetryPolicy)) @@
         ("azureApiVersion" :> Str(DefaultApiVersion))
    ELSE ("retryPolicy" :> Arr(DefaultRetryPolicy))

\* reading .trim of a value that is not a string throws a TypeError
ConstructorThrows(o) ==
    LET type == SelectClientType(o)
        merged == ObjectAssign(Defaults(type), o)
        ep == Get(merged, "azureEndpoint")
    IN /\ type = "AzureOpenAI"
       /\ \/ ep.t # "string"
          \/ ~ValidEndpoint(CleanEndpoint(ep.v))

ResolvedOptions(o) ==
    LET type == SelectClientType(o)
        merged == ObjectAssign(Defaults(type), o)
    IN IF type = "AzureOpenAI"
       THEN [merged EXCEPT !["azureEndpoint"] =
                Str(CleanEndpoint(merged["azureEndpoint"].v))]
       ELSE merged

\* CallerObjectAfter for a constructor that assigns the defaults onto the
\* caller's object instead of a fresh one
CallerObjectAfterInPlace(o) ==
    LET type == SelectClientType(o)
        merged == ObjectAssign(o, ObjectAssign(Defaults(type), o))
        ep == Get(merged, "azureEndpoint")
    IN IF type = "AzureOpenAI" /\ ep.t = "string" /\ ValidEndpoint(CleanEndpoint(ep.v))
       THEN [merged EXCEPT !["azureEndpoint"] = Str(CleanEndpoint(ep.v))]
       ELSE merged

\* lines 159-165, 179, 182-195: the target of Object.assign is a fresh object
\* literal and line 179 writes to this.options, so the caller's object is
\* left as it was
CallerObjectAfter(o) == o

\* new OpenAIEmbeddings(o)
Construct(o) ==
    /\ client = "none"
    /\ supplied' = o
    /\ callerOptions' = CallerObjectAfter(o)
    /\ IF ConstructorThrows(o)
       THEN /\ client' = "threw"
            /\ UNCHANGED <<clientType, options>>
       ELSE /\ client' = "ready"
            /\ clientType' = SelectClientType(o)
            /\ options' = ResolvedOptions(o)
    /\ UNCHANGED <<pc, inputs, url, body, retryCount, sent, waited,
                   received, result>>

---------------------------------------------------------------------------
(* createEmbeddingRequest and the sending half of post *)

\* o[k] = v of JavaScript
SetKey(o, k, v) == [j \in DOMAIN o \cup {k} |-> IF j = k THEN v ELSE o[j]]

\* line 258: the template literal `${options.endpoint ?? base}/v1/embeddings`
RequestUrl(opts) ==
    LET endpoint == Get(opts, "endpoint")
    IN (IF endpoint.t = "undefined" THEN OpenAIBase ELSE ToStringJS(endpoint))
       \o EmbeddingsPath

\* lines 219-221, 259: { input: inputs } with .model assigned
RequestBody(opts, in) ==
    SetKey(("input" :> in), "model", Get(opts, "model"))

\* lines 272-275: Object.assign({}, this.options.requestConfig)
InitialRequestConfig(opts) ==
    LET rc == Get(opts, "requestConfig")
    IN IF rc.t = "object" THEN ObjectAssign(EmptyObject, rc.v) ELSE EmptyObject

\* lines 278-280: the copy is shallow, so a headers object the caller
\* supplied is the very object post goes on to write to
SharesHeaders(opts) == Truthy(Get(InitialRequestConfig(opts), "headers"))

\* DefaultHeader writing the default over whatever is there
DefaultHeaderAlways(h, name, value) == SetKey(h, name, value)

\* lines 281-286
DefaultHeader(h, name, value) ==
    IF ~Truthy(Get(h, name)) THEN SetKey(h, name, value) ELSE h

\* lines 288-292
AuthHeaders(h, opts) ==
    LET withAuth == SetKey(h, "Authorization",
                       Str(BearerPrefix \o ToStringJS(Get(opts, "apiKey"))))
    IN IF Truthy(Get(opts, "organization"))
       THEN SetKey(withAuth, "OpenAI-Organization", Get(opts, "organization"))
       ELSE withAuth

\* lines 272-292: the headers object handed to axios
RequestHeaders(opts) ==
    LET h0 == IF SharesHeaders(opts)
              THEN InitialRequestConfig(opts)["headers"].v
              ELSE EmptyObject
        h1 == DefaultHeader(h0, "Content-Type", Str(ApplicationJson))
        h2 == DefaultHeader(h1, "User-Agent", Str(UserAgent))
    IN AuthHeaders(h2, opts)

\* the options object after post has written the headers: only a shared
\* headers object shows the writes
WriteHeaders(opts, h) ==
    IF SharesHeaders(opts)
    THEN [opts EXCEPT !["requestConfig"].v["headers"].v = h]
    ELSE opts

\* SendAttempt whose retries post an empty body
SendAttemptNoBody(c, u, b, n) ==
    /\ sent' = [sent EXCEPT ![c] =
                   Append(@, [url |-> u,
                              body |-> IF n > 0 THEN EmptyObject ELSE b,
                              headers |-> RequestHeaders(options)])]
    /\ options' = WriteHeaders(options, RequestHeaders(options))
    /\ callerOptions' = WriteHeaders(callerOptions, RequestHeaders(options))
    /\ url' = [url EXCEPT ![c] = u]
    /\ body' = [body EXCEPT ![c] = b]
    /\ retryCount' = [retryCount EXCEPT ![c] = n]
    /\ pc' = [pc EXCEPT ![c] = "awaitResponse"]

\* lines 271-295 up to the await: one physical attempt is handed to axios
SendAttempt(c, u, b, n) ==
    /\ sent' = [sent EXCEPT ![c] =
                   Append(@, [url |-> u, body |-> b,
                              headers |-> RequestHeaders(options)])]
    /\ options' = WriteHeaders(options, RequestHeaders(options))
    /\ callerOptions' = WriteHeaders(callerOptions, RequestHeaders(options))
    /\ url' = [url EXCEPT ![c] = u]
    /\ body' = [body EXCEPT ![c] = b]
    /\ retryCount' = [retryCount EXCEPT ![c] = n]
    /\ pc' = [pc EXCEPT ![c] = "awaitResponse"]

\* createEmbeddings(in): runs synchronously up to the first await
CreateEmbeddings(c, in) ==
    /\ client = "ready"
    /\ pc[c] = "idle"
    /\ inputs' = [inputs EXCEPT ![c] = in]
    /\ SendAttempt(c, RequestUrl(options), RequestBody(options, in), 0)
    /\ UNCHANGED <<client, clientType, supplied, waited, received, result>>

---------------------------------------------------------------------------
(* Transport *)

\* line 200: validateStatus
ValidateStatus(status) == status < 400 \/ status = 429

---------------------------------------------------------------------------
(* Response normalizer *)

RECURSIVE InsertByIndex(_, _)
\* insert item x into the sorted sequence s, behind the items that compare
\* equal to it (Array.prototype.sort is stable)
InsertByIndex(s, x) ==
    IF s = <<>> THEN <<x>>
    ELSE IF x.index - s[Len(s)].index >= 0 THEN Append(s, x)
    ELSE Append(InsertByIndex(SubSeq(s, 1, Len(s) - 1), x), s[Len(s)])

\* SortByIndex leaving the items in the order of the response
SortByIndexKeep(items) == items

RECURSIVE SortByIndex(_)
\* line 235: .sort((a, b) => a.index - b.index)
SortByIndex(items) ==
    IF items = <<>> THEN <<>>
    ELSE InsertByIndex(SortByIndex(SubSeq(items, 1, Len(items) - 1)),
                       items[Len(items)])

\* lines 234-236
Output(items) ==
    LET sorted == SortByIndex(items)
    IN [i \in 1..Len(sorted) |-> sorted[i].embedding]

RateLimitMessage == "The embeddings API returned a rate limit error."

\* line 246, the template literal by its segments
ErrorMessage(response) ==
    <<"The embeddings API returned an error status of ",
      Digits(response.status), ": ", response.statusText>>

\* lines 231-248
ProcessResponse(response) ==
    IF response.status < 300
    THEN [status |-> "success", output |-> Output(response.data)]
    ELSE IF response.status = 429
    THEN [status |-> "rate_limited", message |-> RateLimitMessage]
    ELSE [status |-> "error", message |-> ErrorMessage(response)]

---------------------------------------------------------------------------
(* The receiving half of post and the rest of createEmbeddings *)

\* ShouldRetry counting the retries of the client instead of the call's
ShouldRetryShared(opts, response, n) ==
    /\ response.status = 429
    /\ Get(opts, "retryPolicy").t = "array"
    /\ Len(waited[1]) + Len(waited[2]) < Len(Get(opts, "retryPolicy").v)

\* ShouldRetry stopping one retry early
ShouldRetryShort(opts, response, n) ==
    /\ response.status = 429
    /\ Get(opts, "retryPolicy").t = "array"
    /\ n + 1 < Len(Get(opts, "retryPolicy").v)

\* lines 298-302
ShouldRetry(opts, response, n) ==
    /\ response.status = 429
    /\ Get(opts, "retryPolicy").t = "array"
    /\ n < Len(Get(opts, "retryPolicy").v)

\* RetryDelay always taking the first entry of the schedule
RetryDelayFirst(opts, n) == opts["retryPolicy"].v[1]

\* RetryDelay always taking the last entry of the schedule
RetryDelayLast(opts, n) == opts["retryPolicy"].v[Len(opts["retryPolicy"].v)]

\* line 303: this.options.retryPolicy[retryCount]
RetryDelay(opts, n) == opts["retryPolicy"].v[n + 1]

NoResult == [status |-> "none"]

\* the answer to the attempt in flight arrives
Respond(c, response) ==
    /\ pc[c] = "awaitResponse"
    /\ received' = [received EXCEPT ![c] = Append(@, response)]
    /\ IF ~ValidateStatus(response.status)
       THEN \* axios rejects; nothing catches it on the way up
            /\ pc' = [pc EXCEPT ![c] = "threw"]
            /\ UNCHANGED result
       ELSE IF ShouldRetry(options, response, retryCount[c])
       THEN /\ pc' = [pc EXCEPT ![c] = "delay"]
            /\ UNCHANGED result
       ELSE /\ pc' = [pc EXCEPT ![c] = "done"]
            /\ result' = [result EXCEPT ![c] = ProcessResponse(response)]
    /\ UNCHANGED <<clientVars, inputs, url, body, retryCount, sent, waited>>

\* lines 303-305: the timer fires and post calls itself
DelayElapsed(c) ==
    /\ pc[c] = "delay"
    /\ waited' = [waited EXCEPT ![c] =
                     Append(@, RetryDelay(options, retryCount[c]))]
    /\ SendAttempt(c, url[c], body[c], retryCount[c] + 1)
    /\ UNCHANGED <<client, clientType, supplied, inputs, received, result>>

---------------------------------------------------------------------------
(* Inputs of the model *)

ApiKey == <<"s","k">>
AzureKey == <<"a","k">>
Org == <<"o","r","g">>
Model == <<"m">>
OssModel == <<"o","m">>
Deployment == <<"d","e","p">>
ApiVersion == <<"v","9">>
Endpoint == HttpsScheme \o <<"e">>
OssEndpoint == HttpsScheme \o <<"o">>
TextPlain == <<"t","e","x","t">>

\* every sequence over S of length at most n
SeqsUpTo(S, n) == UNION {[1..k -> S] : k \in 0..n}

\* a schedule of n delays that alternates between two values
Alternating(first, n) ==
    [i \in 1..n |-> IF i % 2 = 1 THEN first ELSE 300 - first]

\* caller-supplied retryPolicy: absent, undefined, or an array of up to
\* MaxRetries delays
RetryPolicies ==
    {NoKey, Undefined} \cup
    {Arr(Alternating(d, n)) : d \in {100, 200}, n \in 0..MaxRetries}

\* caller-supplied azureEndpoint strings: optional blanks, a scheme, a
\* host part, optional trailing "/" and blanks
AzureEndpoints ==
    {pre \o scheme \o host \o post :
        pre \in {<<>>, <<" ">>},
        scheme \in {HttpsScheme, <<"H","T","T","P","S",":","/","/">>,
                    <<"H","t","t","p","S",":","/","/">>,
                    <<"h","t","t","p",":","/","/">>,
                    <<"h","t","t","p","s",":","/">>, <<>>},
        host \in {<<>>, <<"x">>, <<"x","/">>, <<"x","/","/">>},
        post \in {<<>>, <<" ">>, <<"\t"," ">>, <<"/"," ">>}}

RequestConfigs ==
    {NoKey,
     Obj(EmptyObject),
     Obj(("headers" :> Obj(EmptyObject))),
     Obj(("headers" :> Obj(("Content-Type" :> Str(TextPlain))))),
     Obj(("headers" :> Obj(("User-Agent" :> Str(<<"u","a">>)) @@
                           ("Content-Type" :> Str(<<>>)))))}

\* the option objects the calls are explored with: one per variant shape,
\* every retry policy, every request config
CallOptions ==
    {MkObject(base @@ ("retryPolicy" :> rp) @@ ("requestConfig" :> rc)) :
        base \in {("apiKey" :> Str(ApiKey)) @@ ("model" :> Str(Model)),
                  ("apiKey" :> Str(ApiKey)) @@ ("model" :> Str(Model)) @@
                      ("organization" :> Str(Org)) @@
                      ("endpoint" :> Str(Endpoint)),
                  ("azureApiKey" :> Str(AzureKey)) @@
                      ("azureEndpoint" :> Str(<<" ">> \o HttpsScheme \o <<"x","/">>)) @@
                      ("azureDeployment" :> Str(Deployment)),
                  ("ossModel" :> Str(OssModel)) @@
                      ("ossEndpoint" :> Str(OssEndpoint)) @@
                      ("apiKey" :> Str(ApiKey))},
        rp \in RetryPolicies,
        rc \in RequestConfigs}

\* the option objects construction is explored with: every combination of
\* the variant fields
ConfigOptions ==
    {MkObject(("azureApiKey" :> ak) @@ ("ossModel" :> om) @@ ("apiKey" :> k) @@
              ("model" :> Str(Model)) @@ ("azureDeployment" :> Str(Deployment)) @@
              ("azureEndpoint" :> ep) @@ ("azureApiVersion" :> ver) @@
              ("retryPolicy" :> rp)) :
        ak \in {NoKey, Str(<<>>), Str(AzureKey)},
        om \in {NoKey, Str(<<>>), Str(OssModel)},
        k \in {NoKey, Str(ApiKey)},
        ep \in {NoKey} \cup {Str(e) : e \in AzureEndpoints},
        ver \in {NoKey, Undefined, Str(ApiVersion)},
        rp \in {NoKey, Undefined, Arr(<<>>), Arr(<<100>>)}}

\* inputs: one string, or an array of up to MaxInputs strings
InputValues ==
    {Str(<<"a">>)} \cup
    {Arr([i \in 1..n |-> Str(<<"a", "b", "c", "d">>[i])]) : n \in 0..MaxInputs}

\* number of inputs of a call
InputCount(in) == IF in.t = "array" THEN Len(in.v) ELSE 1

Statuses == {200, 299, 300, 399, 400, 429, 500}

StatusText(s) ==
    CASE s < 300 -> <<"O","K">>
      [] s = 429 -> <<"T","o","o"," ","M","a","n","y">>
      [] OTHER -> <<"E","r","r">>

\* the embedding of the item at position j of the response: positions
\* carry different vectors
Embedding(j) == <<j, 0 - j>>

\* response.data.data: up to MaxItems items, indices in any order, with
\* gaps and repeats
ItemLists ==
    {[j \in 1..Len(ix) |-> [index |-> ix[j], embedding |-> Embedding(j)]] :
        ix \in SeqsUpTo(0..MaxInputs, MaxItems)}

\* a 200 carries any item list, a 299 at most one item, the other
\* statuses none
Responses ==
    {[status |-> s, statusText |-> StatusText(s), data |-> d] :
        s \in {200}, d \in ItemLists}
    \cup
    {[status |-> s, statusText |-> StatusText(s), data |-> d] :
        s \in {299}, d \in {l \in ItemLists : Len(l) <= 1}}
    \cup
    {[status |-> s, statusText |-> StatusText(s), data |-> <<>>] :
        s \in {x \in Statuses : x >= 300}}

\* responses whose payload is the single item of a one-string call
PlainResponses ==
    {r \in Responses : r.data \in {<<>>, <<[index |-> 0, embedding |-> Embedding(1)]>>}}

---------------------------------------------------------------------------
(* Specifications *)

Init ==
    /\ client = "none"
    /\ clientType = "unset"
    /\ options = EmptyObject
    /\ callerOptions = EmptyObject
    /\ supplied = EmptyObject
    /\ pc = [c \in CallIds |-> "idle"]
    /\ inputs = [c \in CallIds |-> Undefined]
    /\ url = [c \in CallIds |-> <<>>]
    /\ body = [c \in CallIds |-> EmptyObject]
    /\ retryCount = [c \in CallIds |-> 0]
    /\ sent = [c \in CallIds |-> <<>>]
    /\ waited = [c \in CallIds |-> <<>>]
    /\ received = [c \in CallIds |-> <<>>]
    /\ result = [c \in CallIds |-> NoResult]

\* one call on one client, every response
Next ==
    \/ client = "none" /\ \E o \in CallOptions : Construct(o)
    \/ pc[1] = "idle" /\ \E in \in InputValues : CreateEmbeddings(1, in)
    \/ pc[1] = "awaitResponse" /\ \E r \in Responses : Respond(1, r)
    \/ DelayElapsed(1)

Spec == Init /\ [][Next]_vars

\* every combination of option fields, one call with a one-item payload
NextConfig ==
    \/ client = "none" /\ \E o \in ConfigOptions : Construct(o)
    \/ CreateEmbeddings(1, Str(<<"a">>))
    \/ pc[1] = "awaitResponse" /\ \E r \in PlainResponses : Respond(1, r)
    \/ DelayElapsed(1)

SpecConfig == Init /\ [][NextConfig]_vars

\* the option objects the two-call specifications are explored with
SmallOptions ==
    {MkObject(base @@ ("retryPolicy" :> rp) @@ ("requestConfig" :> rc)) :
        base \in {("apiKey" :> Str(ApiKey)) @@ ("model" :> Str(Model)) @@
                      ("organization" :> Str(Org)) @@
                      ("endpoint" :> Str(Endpoint)),
                  ("azureApiKey" :> Str(AzureKey)) @@
                      ("azureEndpoint" :> Str(HttpsScheme \o <<"x">>)) @@
                      ("azureDeployment" :> Str(Deployment))},
        rp \in RetryPolicies,
        rc \in {NoKey, Obj(("headers" :> Obj(EmptyObject)))}}

\* responses of at most two items
ShortResponses == {r \in Responses : Len(r.data) <= 2}

Finished(c) == pc[c] \in {"done", "threw"}

\* a mock transport that answers the k-th attempt of a call with the k-th
\* response of its script
MockAnswer(script, k) == script[k]

\* two calls in sequence with the same input; the transport answers the
\* second call with the response sequence it gave the first
NextSeq ==
    \/ client = "none" /\ \E o \in SmallOptions : Construct(o)
    \/ pc[1] = "idle" /\ \E in \in InputValues : CreateEmbeddings(1, in)
    \/ pc[1] = "awaitResponse" /\ \E r \in ShortResponses : Respond(1, r)
    \/ DelayElapsed(1)
    \/ Finished(1) /\ CreateEmbeddings(2, inputs[1])
    \/ /\ Finished(1)
       /\ Len(received[2]) < Len(received[1])
       /\ Respond(2, MockAnswer(received[1], Len(received[2]) + 1))
    \/ DelayElapsed(2)

SpecSeq == Init /\ [][NextSeq]_vars

\* two calls on one client, interleaved in every way, each with its own
\* responses
NextConc ==
    \/ client = "none" /\ \E o \in SmallOptions : Construct(o)
    \/ \E c \in CallIds :
           pc[c] = "idle" /\
           \E in \in {Str(<<"a">>), Arr(<<Str(<<"a">>), Str(<<"b">>)>>)} :
               CreateEmbeddings(c, in)
    \/ \E c \in CallIds :
           pc[c] = "awaitResponse" /\ \E r \in PlainResponses : Respond(c, r)
    \/ \E c \in CallIds : DelayElapsed(c)

SpecConc == Init /\ [][NextConc]_vars

\* one call; every attempt sent is answered and every timer set fires
NextLive ==
    \/ client = "none" /\ \E o \in SmallOptions : Construct(o)
    \/ pc[1] = "idle" /\ \E in \in InputValues : CreateEmbeddings(1, in)
    \/ pc[1] = "awaitResponse" /\ \E r \in PlainResponses : Respond(1, r)
    \/ DelayElapsed(1)

SpecLive ==
    /\ Init
    /\ [][NextLive]_vars
    /\ WF_vars(\E r \in PlainResponses : Respond(1, r))
    /\ WF_vars(DelayElapsed(1))

TypeOK ==
    /\ client \in {"none", "ready", "threw"}
    /\ clientType \in {"unset", "OpenAI", "AzureOpenAI", "OSS"}
    /\ \A c \in CallIds :
        /\ pc[c] \in {"idle", "awaitResponse", "delay", "done", "threw"}
        /\ retryCount[c] \in 0..(MaxRetries + 1)

---------------------------------------------------------------------------
(* Properties of the retry protocol *)

HasSchedule == Get(options, "retryPolicy").t = "array"
ScheduleLen == Len(options["retryPolicy"].v)
LastResponse(c) == received[c][Len(received[c])]
Only429(c, n) == \A i \in 1..n : received[c][i].status = 429

\* C1: with a retry schedule of length L and a transport that answers every
\* attempt with 429, a call does not throw, is still running while fewer
\* than L + 1 answers have arrived, and on the (L + 1)-th answer returns
\* rate_limited having made exactly L + 1 attempts.
C1_RateLimitedAfterSchedule ==
    \A c \in CallIds :
        (HasSchedule /\ received[c] # <<>> /\ Only429(c, Len(received[c]))) =>
            /\ pc[c] # "threw"
            /\ Len(sent[c]) <= ScheduleLen + 1
            /\ Len(received[c]) < ScheduleLen + 1 =>
                   pc[c] \in {"delay", "awaitResponse"}
            /\ Len(received[c]) = ScheduleLen + 1 =>
                   /\ pc[c] = "done"
                   /\ result[c].status = "rate_limited"
                   /\ Len(sent[c]) = ScheduleLen + 1

C1_Witness ==
    /\ HasSchedule /\ ScheduleLen = 2
    /\ pc[1] = "done"
    /\ Only429(1, Len(received[1]))
    /\ Len(sent[1]) = 3
    /\ result[1].status = "rate_limited"

\* C2: when the first k attempts are answered 429 and attempt k + 1 is
\* answered with a status below 300, the call has made exactly k + 1
\* attempts, has waited exactly the first k delays of the schedule in
\* order, and returns success.
C2_SuccessAfterRetries ==
    \A c \in CallIds :
        (/\ HasSchedule
         /\ received[c] # <<>>
         /\ LastResponse(c).status < 300
         /\ Only429(c, Len(received[c]) - 1)) =>
            LET k == Len(received[c]) - 1
            IN /\ k <= ScheduleLen
               /\ pc[c] = "done"
               /\ result[c].status = "success"
               /\ Len(sent[c]) = k + 1
               /\ Len(waited[c]) = k
               /\ \A i \in 1..k : waited[c][i] = options["retryPolicy"].v[i]

C2_Witness ==
    /\ HasSchedule /\ options["retryPolicy"].v = <<200, 100>>
    /\ pc[1] = "done"
    /\ Len(received[1]) = 3
    /\ Only429(1, 2)
    /\ LastResponse(1).status = 200
    /\ waited[1] = <<200, 100>>
    /\ result[1].status = "success"

\* C3 (as claimed): an attempt answered with a status s >= 300 other than
\* 429 ends the call without a throw and without a further attempt, with
\* the error result whose message contains s.
C3_ErrorStatusReturned ==
    \A c \in CallIds :
        (/\ received[c] # <<>>
         /\ LastResponse(c).status >= 300
         /\ LastResponse(c).status # 429) =>
            /\ pc[c] = "done"
            /\ Len(sent[c]) = Len(received[c])
            /\ result[c].status = "error"
            /\ result[c].message[2] = Digits(LastResponse(c).status)

---------------------------------------------------------------------------
(* Properties of the response normalizer *)

\* the items carry the distinct indices 0..n-1, in any order
CarriesEachIndexOnce(items, n) ==
    /\ Len(items) = n
    /\ \A i \in 0..(n - 1) : \E j \in 1..n : items[j].index = i

\* C4: when the final response has a status below 300 and its items carry
\* the distinct indices 0..N-1 for N inputs, the result is success, the
\* output has N vectors and the vector at position i is the embedding of
\* the item whose index is i.
C4_OutputInIndexOrder ==
    \A c \in CallIds :
        (/\ pc[c] = "done"
         /\ LastResponse(c).status < 300
         /\ CarriesEachIndexOnce(LastResponse(c).data, InputCount(inputs[c]))) =>
            LET items == LastResponse(c).data
                n == InputCount(inputs[c])
            IN /\ result[c].status = "success"
               /\ Len(result[c].output) = n
               /\ \A j \in 1..n :
                      result[c].output[items[j].index + 1] = items[j].embedding

C4_Witness ==
    /\ pc[1] = "done"
    /\ InputCount(inputs[1]) = 2
    /\ LastResponse(1).status < 300
    /\ Len(LastResponse(1).data) = 2
    /\ LastResponse(1).data[1].index = 1
    /\ LastResponse(1).data[2].index = 0
    /\ result[1].output = <<Embedding(2), Embedding(1)>>

\* C5 (as claimed): when the final response has a status below 300 and the
\* number of items differs from the number of inputs, the result is error.
C5_ItemCountMismatchIsError ==
    \A c \in CallIds :
        (/\ pc[c] = "done"
         /\ LastResponse(c).status < 300
         /\ Len(LastResponse(c).data) # InputCount(inputs[c])) =>
            result[c].status = "error"

---------------------------------------------------------------------------
(* Properties of construction *)

\* the caller's object carries key k with a value
Carries(o, k) == k \in DOMAIN o /\ o[k].t # "undefined"

\* the caller's object carries key k with a non-empty string
CarriesNonEmpty(o, k) == Carries(o, k) /\ o[k].v # <<>>

\* C6 (as claimed): the variant is AzureOpenAI if azureApiKey is present,
\* otherwise OSS if ossModel is present, otherwise OpenAI.
C6_VariantByPresence ==
    client = "ready" =>
        clientType =
            IF Carries(callerOptions, "azureApiKey") THEN "AzureOpenAI"
            ELSE IF Carries(callerOptions, "ossModel") THEN "OSS"
            ELSE "OpenAI"

\* C6 (amended): at every moment after a successful construction the
\* variant is AzureOpenAI if azureApiKey is present and non-empty, otherwise
\* OSS if ossModel is present and non-empty, otherwise OpenAI; only the
\* AzureOpenAI branch can throw.
C6_VariantByNonEmptyField ==
    /\ client = "ready" =>
        clientType =
            IF CarriesNonEmpty(callerOptions, "azureApiKey") THEN "AzureOpenAI"
            ELSE IF CarriesNonEmpty(callerOptions, "ossModel") THEN "OSS"
            ELSE "OpenAI"
    /\ client = "threw" => CarriesNonEmpty(callerOptions, "azureApiKey")

C6_Witness ==
    /\ client = "ready"
    /\ CarriesNonEmpty(callerOptions, "azureApiKey")
    /\ CarriesNonEmpty(callerOptions, "ossModel")
    /\ CarriesNonEmpty(callerOptions, "apiKey")
    /\ clientType = "AzureOpenAI"
    /\ pc[1] = "done"

\* positions of s that hold no blank
NonBlank(s) == {i \in 1..Len(s) : s[i] \notin {" ", "\t"}}

\* s without its leading and trailing blanks
Stripped(s) ==
    IF NonBlank(s) = {} THEN <<>>
    ELSE LET lo == CHOOSE i \in NonBlank(s) : \A j \in NonBlank(s) : i <= j
             hi == CHOOSE i \in NonBlank(s) : \A j \in NonBlank(s) : i >= j
         IN [i \in 1..(hi - lo + 1) |-> s[lo + i - 1]]

\* t without one trailing "/"
WithoutOneSlash(t) ==
    IF t # <<>> /\ t[Len(t)] = "/" THEN [i \in 1..(Len(t) - 1) |-> t[i]] ELSE t

\* n starts with "https://" in any mix of cases
SecureScheme(n) ==
    LET letters == <<{"h", "H"}, {"t", "T"}, {"t", "T"}, {"p", "P"},
                     {"s", "S"}, {":"}, {"/"}, {"/"}>>
    IN Len(n) >= 8 /\ \A i \in 1..8 : n[i] \in letters[i]

\* C7: for the gateway variant construction throws exactly when the
\* endpoint, stripped of blanks and of one trailing "/", does not start with
\* "https://" in any mix of cases; a successful construction stores that
\* stripped endpoint; a throwing construction leaves no client behind.
C7_GatewayEndpoint ==
    (/\ client # "none"
     /\ CarriesNonEmpty(callerOptions, "azureApiKey")
     /\ Get(callerOptions, "azureEndpoint").t = "string") =>
        LET clean == WithoutOneSlash(Stripped(callerOptions["azureEndpoint"].v))
        IN /\ client = "threw" <=> ~SecureScheme(clean)
           /\ client = "ready" => options["azureEndpoint"] = Str(clean)
           /\ client = "threw" =>
                  /\ options = EmptyObject
                  /\ clientType = "unset"
                  /\ \A c \in CallIds : pc[c] = "idle" /\ sent[c] = <<>>

C7_Witness ==
    /\ client = "ready"
    /\ clientType = "AzureOpenAI"
    /\ callerOptions["azureEndpoint"].v =
           <<" ", "H", "T", "T", "P", "S", ":", "/", "/", "x", "/", " ">>
    /\ options["azureEndpoint"].v = <<"H", "T", "T", "P", "S", ":", "/", "/", "x">>

\* C8 (as claimed): after a successful construction every defaulted field
\* of client.options holds the caller's value when the caller supplied one,
\* and the default when the caller supplied none, a key carried without a
\* value included.
C8_DefaultsUnlessSupplied ==
    client = "ready" =>
        LET defaulted == IF clientType = "AzureOpenAI"
                         THEN {"retryPolicy", "azureApiVersion"}
                         ELSE {"retryPolicy"}
            default(k) == IF k = "retryPolicy" THEN Arr(<<2000, 5000>>)
                          ELSE Str(<<"2","0","2","3","-","0","5","-","1","5">>)
        IN \A k \in defaulted :
               IF Carries(callerOptions, k)
               THEN Get(options, k) = callerOptions[k]
               ELSE Get(options, k) = default(k)

---------------------------------------------------------------------------
(* Properties of the requests *)

Contains(s, p) ==
    \E i \in 0..(Len(s) - Len(p)) : \A j \in 1..Len(p) : s[i + j] = p[j]

BearerOf(key) == Str(<<"B","e","a","r","e","r"," ">> \o ToStringJS(key))

\* C9 (as claimed): every attempt of an OpenAI or OSS client carries the
\* bearer Authorization header (and the organization header when one is
\* configured); every attempt of an AzureOpenAI client carries azureApiKey
\* in a header of its own and no bearer Authorization header built from
\* apiKey.
C9_AuthHeaderMatchesVariant ==
    \A c \in CallIds : \A i \in 1..Len(sent[c]) :
        LET h == sent[c][i].headers
        IN IF clientType = "AzureOpenAI"
           THEN /\ \E name \in DOMAIN h \ {"Authorization"} :
                       h[name] = options["azureApiKey"]
                /\ Get(h, "Authorization") # BearerOf(Get(options, "apiKey"))
           ELSE /\ Get(h, "Authorization") = BearerOf(Get(options, "apiKey"))
                /\ Carries(options, "organization") =>
                       Get(h, "OpenAI-Organization") = options["organization"]

\* C10 (as claimed): the URL of every attempt is the overridden endpoint or
\* the fixed base followed by /v1/embeddings for OpenAI, starts with the
\* normalized azureEndpoint and names azureDeployment and azureApiVersion
\* for AzureOpenAI, and starts with ossEndpoint for OSS.
C10_UrlMatchesVariant ==
    \A c \in CallIds : \A i \in 1..Len(sent[c]) :
        LET u == sent[c][i].url
        IN CASE clientType = "AzureOpenAI" ->
                    /\ StartsWith(u, ToStringJS(Get(options, "azureEndpoint")))
                    /\ Contains(u, ToStringJS(Get(options, "azureDeployment")))
                    /\ Contains(u, ToStringJS(Get(options, "azureApiVersion")))
             [] clientType = "OSS" ->
                    StartsWith(u, ToStringJS(Get(options, "ossEndpoint")))
             [] OTHER ->
                    u = (IF Carries(options, "endpoint")
                         THEN options["endpoint"].v
                         ELSE <<"h","t","t","p","s",":","/","/","a","p","i",".",
                                "o","p","e","n","a","i",".","c","o","m">>)
                        \o <<"/","v","1","/","e","m","b","e","d","d","i","n","g","s">>

---------------------------------------------------------------------------
(* Properties of the request content and of the stored configuration *)

\* C11 (as claimed): the body of every attempt is { input, model } with the
\* caller's input and the identifier of the active variant (model for
\* OpenAI, azureDeployment for AzureOpenAI, ossModel for OSS), never
\* undefined.
C11_BodyCarriesVariantModel ==
    \A c \in CallIds : \A i \in 1..Len(sent[c]) :
        LET b == sent[c][i].body
            id == CASE clientType = "AzureOpenAI" -> Get(options, "azureDeployment")
                    [] clientType = "OSS" -> Get(options, "ossModel")
                    [] OTHER -> Get(options, "model")
        IN /\ DOMAIN b = {"input", "model"}
           /\ b["input"] = inputs[c]
           /\ b["model"].t # "undefined"
           /\ b["model"] = id

\* C14 (as claimed): once the client is constructed no step changes
\* client.options, the nested requestConfig and its headers included.
C14_OptionsNeverWritten == [][client = "ready" => options' = options]_vars

\* C16 (as claimed): a rate_limited result comes only after schedule
\* length + 1 attempts, all answered 429, with every delay of the schedule
\* waited; the schedule is the two-entry default when the stored
\* retryPolicy is not a sequence.
C16_RateLimitedMeansExhausted ==
    \A c \in CallIds :
        result[c].status = "rate_limited" =>
            LET schedule == IF Get(options, "retryPolicy").t = "array"
                            THEN options["retryPolicy"].v
                            ELSE <<2000, 5000>>
            IN /\ Len(sent[c]) = Len(schedule) + 1
               /\ Len(received[c]) = Len(schedule) + 1
               /\ Only429(c, Len(received[c]))
               /\ waited[c] = schedule

\* the headers object the caller handed over at construction
SuppliedHeaders ==
    LET rc == Get(supplied, "requestConfig")
    IN IF rc.t = "object" /\ Get(rc.v, "headers").t = "object"
       THEN rc.v["headers"].v
       ELSE EmptyObject

HeaderDefault(name) ==
    IF name = "Content-Type"
    THEN Str(<<"a","p","p","l","i","c","a","t","i","o","n","/","j","s","o","n">>)
    ELSE Str(<<"A","l","p","h","a","W","a","v","e">>)

\* C17 (as claimed): on every attempt Content-Type and User-Agent equal the
\* caller's header value when the caller defined one, and the default
\* otherwise.
C17_CallerHeadersWin ==
    \A c \in CallIds : \A i \in 1..Len(sent[c]) :
        \A name \in {"Content-Type", "User-Agent"} :
            Get(sent[c][i].headers, name) =
                IF Carries(SuppliedHeaders, name)
                THEN SuppliedHeaders[name]
                ELSE HeaderDefault(name)

\* C17 (amended): on every attempt Content-Type and User-Agent equal the
\* caller's header value when the caller defined a non-empty one, and the
\* default otherwise.
C17_NonEmptyCallerHeadersWin ==
    \A c \in CallIds : \A i \in 1..Len(sent[c]) :
        \A name \in {"Content-Type", "User-Agent"} :
            Get(sent[c][i].headers, name) =
                IF CarriesNonEmpty(SuppliedHeaders, name)
                THEN SuppliedHeaders[name]
                ELSE HeaderDefault(name)

C17_Witness ==
    /\ Len(sent[1]) = 2
    /\ CarriesNonEmpty(SuppliedHeaders, "User-Agent")
    /\ Carries(SuppliedHeaders, "Content-Type")
    /\ ~CarriesNonEmpty(SuppliedHeaders, "Content-Type")
    /\ sent[1][2].headers["User-Agent"] = SuppliedHeaders["User-Agent"]
    /\ sent[1][2].headers["Content-Type"] = HeaderDefault("Content-Type")

\* C19: every attempt of a call posts the url and the body of the call's
\* first attempt.
C19_RetriesRepeatRequest ==
    \A c \in CallIds : \A i \in 1..Len(sent[c]) :
        /\ sent[c][i].url = sent[c][1].url
        /\ sent[c][i].body = sent[c][1].body
        /\ sent[c][i].body["input"] = inputs[c]

C19_Witness ==
    /\ Len(sent[1]) = 3
    /\ inputs[1].t = "array"
    /\ Len(inputs[1].v) = 2
    /\ sent[1][3].body["input"] = inputs[1]

---------------------------------------------------------------------------
(* Properties of the order of attempts *)

\* C15: a call has at most one attempt in flight, and an attempt after the
\* first has been sent only after its predecessor was answered 429 and the
\* delay the schedule holds for that retry has elapsed.
C15_OneAttemptAtATime ==
    \A c \in CallIds :
        sent[c] # <<>> =>
            /\ Len(sent[c]) - Len(received[c]) \in {0, 1}
            /\ Len(sent[c]) - Len(received[c]) = 1 <=> pc[c] = "awaitResponse"
            /\ Len(waited[c]) = Len(sent[c]) - 1
            /\ \A i \in 1..(Len(sent[c]) - 1) :
                   /\ received[c][i].status = 429
                   /\ waited[c][i] = options["retryPolicy"].v[i]

C15_Witness ==
    /\ Len(sent[1]) = 3
    /\ Len(received[1]) = 2
    /\ pc[1] = "awaitResponse"
    /\ waited[1] = <<100, 200>>

---------------------------------------------------------------------------
(* Frame of construction *)

\* C18: construction, successful or throwing, leaves the caller's options
\* object as it was supplied: same keys, same azureEndpoint, no added
\* retryPolicy or azureApiVersion; calls do not change that either (outside
\* requestConfig).
C18_CallerObjectUntouched ==
    client # "none" =>
        /\ DOMAIN callerOptions = DOMAIN supplied
        /\ \A k \in DOMAIN supplied \ {"requestConfig"} :
               callerOptions[k] = supplied[k]
        /\ (\A c \in CallIds : pc[c] = "idle") => callerOptions = supplied

C18_Witness ==
    /\ client = "ready"
    /\ clientType = "AzureOpenAI"
    /\ "retryPolicy" \notin DOMAIN supplied
    /\ "azureApiVersion" \notin DOMAIN supplied
    /\ "retryPolicy" \in DOMAIN options
    /\ "retryPolicy" \notin DOMAIN callerOptions
    /\ options["azureEndpoint"] # supplied["azureEndpoint"]
    /\ callerOptions["azureEndpoint"] = supplied["azureEndpoint"]

---------------------------------------------------------------------------
(* Properties of repeated and concurrent calls *)

\* C12: when a second call with the same input is answered with the
\* response sequence of the first, it never needs an answer the first did
\* not get, and it ends as the first did: same outcome, same result, same
\* attempts (each with the same url, body and headers) and same delays.
C12_SecondCallRepeatsFirst ==
    (Finished(1) /\ pc[2] # "idle") =>
        /\ inputs[2] = inputs[1]
        /\ pc[2] = "awaitResponse" => Len(received[2]) < Len(received[1])
        /\ Finished(2) =>
               /\ received[2] = received[1]
               /\ pc[2] = pc[1]
               /\ result[2] = result[1]
               /\ Len(sent[2]) = Len(sent[1])
               /\ sent[2] = sent[1]
               /\ waited[2] = waited[1]

C12_Witness ==
    /\ pc[1] = "done" /\ pc[2] = "done"
    /\ Len(sent[1]) = 3 /\ Len(sent[2]) = 3
    /\ result[1].status = "success"
    /\ Len(result[1].output) = 2
    /\ result[2] = result[1]

\* what createEmbeddings returns for a final response: by status class
ExpectedResult(response, res) ==
    IF response.status < 300
    THEN /\ res.status = "success"
         /\ Len(res.output) = Len(response.data)
         /\ Len(response.data) = 1 => res.output[1] = response.data[1].embedding
    ELSE IF response.status = 429
    THEN res.status = "rate_limited"
    ELSE res.status = "error"

\* C13: under every interleaving of two calls, the position, retry counter,
\* attempts, delays and result of each call are those its own response
\* sequence gives a call that runs alone: every answer but the last was a
\* 429 inside the schedule, one delay of the schedule per retry, and the
\* outcome decided by the last answer.
C13_CallsIndependent ==
    \A c \in CallIds :
        pc[c] # "idle" =>
            LET r == received[c]
                k == Len(r)
                schedule == IF Get(options, "retryPolicy").t = "array"
                            THEN options["retryPolicy"].v ELSE <<>>
                retried(i) == r[i].status = 429 /\ i <= Len(schedule)
                prefix(n) == [i \in 1..n |-> schedule[i]]
            IN /\ \A i \in 1..(k - 1) : retried(i)
               /\ retryCount[c] = Len(sent[c]) - 1
               /\ IF k = 0
                  THEN pc[c] = "awaitResponse" /\ Len(sent[c]) = 1 /\ waited[c] = <<>>
                  ELSE IF retried(k)
                  THEN \/ pc[c] = "delay" /\ Len(sent[c]) = k /\ waited[c] = prefix(k - 1)
                       \/ pc[c] = "awaitResponse" /\ Len(sent[c]) = k + 1
                            /\ waited[c] = prefix(k)
                  ELSE /\ Len(sent[c]) = k
                       /\ waited[c] = prefix(k - 1)
                       /\ IF r[k].status >= 400 /\ r[k].status # 429
                          THEN pc[c] = "threw" /\ result[c].status = "none"
                          ELSE pc[c] = "done" /\ ExpectedResult(r[k], result[c])

C13_Witness ==
    /\ pc[1] = "delay"
    /\ Len(waited[1]) = 1
    /\ pc[2] = "done"
    /\ result[2].status = "rate_limited"
    /\ Len(sent[2]) = 3
    /\ waited[2] = <<200, 100>>

---------------------------------------------------------------------------
(* Termination *)

\* C20 (as claimed): the retry counter of a call stays between 0 and the
\* length of the retry schedule, and every call that has sent an attempt
\* eventually returns a result.
C20_BoundedAndReturns ==
    /\ [](\A c \in CallIds :
            /\ retryCount[c] >= 0
            /\ retryCount[c] <= (IF Get(options, "retryPolicy").t = "array"
                                 THEN Len(options["retryPolicy"].v) ELSE 0))
    /\ \A c \in CallIds :
           (pc[c] = "awaitResponse") ~> (result[c].status # "none")

====
